---- MODULE Spec2Model ----
(***************************************************************************)
(* Defender 2084: the gameplay simulation of the browser game.             *)
(*                                                                         *)
(* src/unnamed/part_000 holds two versions of the game script, each with a *)
(* Lander class and a Game class:                                          *)
(*   cls = 1   lines    1..1547  (Game with update(), difficulty, a gated  *)
(*                                render loop; several methods are defined *)
(*                                twice and the LATER definition is the    *)
(*                                one a JavaScript class keeps)            *)
(*   cls = 2   lines 1548..2816  (Game whose render loop spawns and        *)
(*                                recharges, everything else in observers) *)
(* The variable cls says which of the two is loaded; it never changes.     *)
(*                                                                         *)
(* Units: x and z coordinates, lander and laser y, distances and laser     *)
(* directions are in tenths of a world unit; an astronaut's y is in        *)
(* hundredths (it falls by gameSpeed * 0.3); energy is in tenths of an     *)
(* energy point; gameSpeed is in tenths; time is in milliseconds.          *)
(* Floating point rounding of the 0.2 and 0.5 energy steps is not          *)
(* modelled: the arithmetic is exact.                                      *)
(***************************************************************************)
EXTENDS Integers, Sequences, FiniteSets, TLC

(***************************************************************************)
(* Program constants                                                       *)
(***************************************************************************)
maxHealth == 100
maxEnergy == 1000
energyRechargeRate == 2
laserEnergyCost == 100
thrustEnergyCost == 5
shootCooldown == 250
laserSpeed == 2
landerSpeed == 3
landerDamage == 20
initialSpawnInterval == 3000
spawnX == 4000
astronautCount == 10
playerHitRange == 30
laserMaxRange == 5000
landerMinZ == -5000
astronautWrap == 10000
astronautMinY == -10000
landerMinY == -1000
laserMaxY == 10000
meshExtent == 20
meshSphere2 == 1200
difficultyPeriod == 30000
maxDifficulty == 10

(***************************************************************************)
(* Bounds of the model                                                     *)
(***************************************************************************)
Epoch == 100000          \* Date.now() when the page is constructed
MaxTime == 250           \* Spec: the clock runs up to Epoch + MaxTime
MaxFrames == 2           \* Spec: render-loop iterations explored
MaxLasers == 1           \* Spec: live projectiles explored
MaxStarts == 1           \* start() calls explored
MaxDamageCalls == 6      \* direct takeDamage calls explored
FireMaxTime == 2500      \* SpecFire: the clock runs up to Epoch + FireMaxTime
FireMaxFrames == 1       \* SpecFire: render-loop iterations explored
FireMaxLasers == 11      \* SpecFire: live projectiles explored
MaxAstronauts == 2       \* SpecLander: astronauts in a drawn collection
SpawnMaxTime == 4004     \* SpecSpawn: the clock runs up to Epoch + SpawnMaxTime
SpawnMaxFrames == 4      \* SpecSpawn: render-loop iterations explored
CooldownMaxTime == 1000  \* SpecCooldown: the clock runs up to Epoch + CooldownMaxTime
CooldownMaxLasers == 4   \* SpecCooldown: live projectiles explored
CollideMaxFrames == 2    \* SpecCollide: render-loop iterations explored
CollideMaxObjects == 2   \* SpecCollide: landers, and projectiles, in a drawn collection
LiveMaxLasers == 1       \* SpecLive
CrowdMaxTime == 15005    \* SpecCrowd
CrowdMaxFrames == 6      \* SpecCrowd
PassMaxTime == 3001      \* SpecPass
PassMaxFrames == 2       \* SpecPass
PassMaxObjects == 2      \* SpecPass
MissionMaxTime == 60000  \* SpecMission
MissionMaxFrames == 3    \* SpecMission
MaxUpdates == 3          \* SpecLander: Lander.update calls explored

TimeSteps == {shootCooldown}
SpawnZs == {0, 500}
LaserDirs == {<<0, 0, 10>>, <<0, -6, 8>>}
FireDirs == {<<0, 0, 10>>}
FireSpawnZs == {500}
PlaneZs == {0, -100}
LanderXs == {spawnX, 50, -2000}
LanderZs == {0, 500}
AstronautXs == {0, 100}
AstronautZs == {0, 500}
SpawnSteps == {1000, 1001}
CooldownSteps == {100, shootCooldown}
LiveSpawnZs == {0}
ScrollZs == {0, -5000, -5001}
CrowdSteps == {3001}
MissionSteps == {difficultyPeriod}
ThrustKeys == {"q"}

VARIABLES
    cls,                \* which Game class is loaded
    isRunning, isGameOver,
    health, energy, score, astronautsSaved, landersDestroyed,
    canShoot, timers,   \* timers: due times of pending cooldown setTimeout callbacks
    keys,               \* thrust keys currently held
    now,                \* Date.now()
    startTime, lastLanderSpawn,
    difficulty, gameSpeed, landerSpawnInterval, maxEnemies,
    lasers, landers, astronauts,
    camera,
    extraLoops,         \* render loops registered by start()
    gameOverShown,      \* number of showGameOver() invocations
    frames,             \* render-loop iterations so far
    damageCalls,        \* takeDamage invocations so far
    restarted,          \* start() was called after a takeDamage invocation
    hist,               \* halted: a frame faulted and no start() or resume() followed;
                        \* sinceShot: ms since the last accepted fire attempt, capped
                        \* at shootCooldown (shootCooldown when there was none);
                        \* running: ms the mission clock below has counted with
                        \* isRunning true since start()
    ev                  \* what the last frame, fire attempt or damage call did

vars == <<cls, isRunning, isGameOver, health, energy, score, astronautsSaved,
          landersDestroyed, canShoot, timers, keys, now, startTime,
          lastLanderSpawn, difficulty, gameSpeed, landerSpawnInterval,
          maxEnemies, lasers, landers, astronauts, camera, extraLoops,
          gameOverShown, frames, damageCalls, restarted, hist, ev>>

(***************************************************************************)
(* Arithmetic helpers                                                      *)
(***************************************************************************)
Min(a, b) == IF a < b THEN a ELSE b
Max(a, b) == IF a > b THEN a ELSE b
Abs(a) == IF a < 0 THEN -a ELSE a

RECURSIVE SqrtSearch(_, _, _)
SqrtSearch(n, lo, hi) ==
    IF lo >= hi THEN lo
    ELSE LET mid == (lo + hi + 1) \div 2
         IN IF mid * mid <= n THEN SqrtSearch(n, mid, hi)
            ELSE SqrtSearch(n, lo, mid - 1)

\* floor of the square root (Math.sqrt inside Vector3.Distance / normalize)
ISqrt(n) == SqrtSearch(n, 0, 20000)

Vec(x, y, z) == [x |-> x, y |-> y, z |-> z]

\* squared 3D distance (BABYLON.Vector3.Distance, squared)
Dist2(a, b) ==
    (a.x - b.x) * (a.x - b.x) + (a.y - b.y) * (a.y - b.y) + (a.z - b.z) * (a.z - b.z)

\* squared planar distance: both points are rebuilt with y = 0
PlanarDist2Manhattan(a, b) ==
    (Abs(a.x - b.x) + Abs(a.z - b.z)) * (Abs(a.x - b.x) + Abs(a.z - b.z))

PlanarDist2(a, b) ==
    (a.x - b.x) * (a.x - b.x) + (a.z - b.z) * (a.z - b.z)

\* remove element i of a sequence (Array.prototype.splice(i, 1))
Splice(s, i) == [k \in 1..(Len(s) - 1) |-> IF k < i THEN s[k] ELSE s[k + 1]]

NoEvent == [op |-> "init", ran |-> FALSE, faulted |-> FALSE, escaped |-> FALSE,
            spawned |-> FALSE, gate |-> FALSE, fired |-> FALSE,
            steps |-> <<>>, hits |-> <<>>, bumps |-> <<>>, lost |-> 0,
            passes |-> <<>>]

Event(op) == [NoEvent EXCEPT !.op = op]

(***************************************************************************)
(* Lander (class Lander, identical update logic in both versions)          *)
(***************************************************************************)
\* The array this.astronauts refers to once the constructor has returned,
\* named by the line of the assignment that created it; the first version's
\* createScene replaces the array of initializeGameProperties (line 126)
\* before any lander exists, and no later code assigns this.astronauts.
AstronautsArray == IF cls = 1 THEN 601 ELSE 1620

\* new Lander(scene, position, this.astronauts): astronauts is the array the
\* lander keeps a reference to; target is the index its last search chose
NewLander(z) ==
    [x |-> spawnX, y |-> 0, z |-> z, initialZ |-> z, target |-> 0,
     astronauts |-> AstronautsArray]

\* a lander handed the array of line 126, which stays empty
StaleLander(z) == [NewLander(z) EXCEPT !.astronauts = 126]

\* an astronaut's position in tenths (its y is kept in hundredths)
AstronautPos(a) == Vec(a.x, a.y \div 10, a.z)

RECURSIVE NearestScanLast(_, _, _, _)
NearestScanLast(p, as, k, best) ==
    IF k > Len(as) THEN best
    ELSE IF best = 0 \/ PlanarDist2(p, as[k]) <= PlanarDist2(p, as[best])
         THEN NearestScanLast(p, as, k + 1, k)
         ELSE NearestScanLast(p, as, k + 1, best)

\* The search loop of Lander.update: the scan keeps the first astronaut whose
\* planar distance is strictly below the running minimum.  best = 0 stands for
\* nearestAstronaut = null (minDistance = Infinity).
RECURSIVE NearestScan(_, _, _, _)
NearestScan(p, as, k, best) ==
    IF k > Len(as) THEN best
    ELSE IF best = 0 \/ PlanarDist2(p, as[k]) < PlanarDist2(p, as[best])
         THEN NearestScan(p, as, k + 1, k)
         ELSE NearestScan(p, as, k + 1, best)

NearestAstronaut(p, as) == NearestScan(p, as, 1, 0)

\* direction.x * speed, direction = (astronaut - lander).normalize();
\* normalize() leaves a zero vector unchanged.  The quotient is truncated to
\* a whole tenth.
SteerStepDrift(p, as, t) ==
    IF t = 0 THEN -landerSpeed
    ELSE LET d2 == Dist2(AstronautPos(as[t]), p)
             dx == as[t].x - p.x
         IN IF d2 = 0 THEN 0
            ELSE IF dx < 0 THEN -((landerSpeed * (-dx)) \div ISqrt(d2))
                 ELSE (landerSpeed * dx) \div ISqrt(d2)

SteerStep(p, as, t) ==
    IF t = 0 THEN 0
    ELSE LET d2 == Dist2(AstronautPos(as[t]), p)
             dx == as[t].x - p.x
         IN IF d2 = 0 THEN 0
            ELSE IF dx < 0 THEN -((landerSpeed * (-dx)) \div ISqrt(d2))
                 ELSE (landerSpeed * dx) \div ISqrt(d2)

\* Lander.update(gamePlaneZ)
LanderUpdate(l, as, gamePlaneZ) ==
    LET p == Vec(l.x, l.y, l.initialZ + gamePlaneZ)
        t == NearestAstronaut(p, as)
    IN [l EXCEPT !.z = p.z, !.x = p.x + SteerStep(p, as, t), !.target = t]

\* gamePlane.position.z: the ground mesh is created at z = 0 and no code
\* moves it
GamePlaneZ == 0

(***************************************************************************)
(* The game object as a record, for the handlers that run several methods  *)
(* in sequence.  thrown marks an exception in flight.                      *)
(***************************************************************************)
This ==
    [isRunning |-> isRunning, isGameOver |-> isGameOver, health |-> health,
     energy |-> energy, score |-> score, astronautsSaved |-> astronautsSaved,
     landersDestroyed |-> landersDestroyed, lastLanderSpawn |-> lastLanderSpawn,
     difficulty |-> difficulty, gameSpeed |-> gameSpeed,
     landerSpawnInterval |-> landerSpawnInterval, maxEnemies |-> maxEnemies,
     lasers |-> lasers, landers |-> landers, astronauts |-> astronauts,
     gameOverShown |-> gameOverShown, damageCalls |-> damageCalls,
     thrown |-> FALSE, ran |-> FALSE, faulted |-> FALSE, escaped |-> FALSE,
     spawned |-> FALSE, steps |-> <<>>, hits |-> <<>>, bumps |-> <<>>, lost |-> 0,
     passes |-> <<>>]

\* the log of a frame: the method `step` was entered from `by` (the tick
\* function update, the render function loop, or the scene or controls
\* observer)
Begin(g, by, step) ==
    [g EXCEPT !.steps = Append(g.steps, [by |-> by, step |-> step])]

\* takeDamage(amount), same text in both versions
TakeDamageNoGuard(g, amount) ==
    LET h == Max(0, g.health - amount)
    IN IF h <= 0
       THEN [g EXCEPT !.health = h, !.isGameOver = TRUE,
                      !.gameOverShown = g.gameOverShown + 1,
                      !.damageCalls = g.damageCalls + 1]
       ELSE [g EXCEPT !.health = h, !.damageCalls = g.damageCalls + 1]

TakeDamageNoFloor(g, amount) ==
    LET h == g.health - amount
    IN IF h <= 0 /\ ~g.isGameOver
       THEN [g EXCEPT !.health = h, !.isGameOver = TRUE,
                      !.gameOverShown = g.gameOverShown + 1,
                      !.damageCalls = g.damageCalls + 1]
       ELSE [g EXCEPT !.health = h, !.damageCalls = g.damageCalls + 1]

takeDamage(g, amount) ==
    LET h == Max(0, g.health - amount)
    IN IF h <= 0 /\ ~g.isGameOver
       THEN [g EXCEPT !.health = h, !.isGameOver = TRUE,
                      !.gameOverShown = g.gameOverShown + 1,
                      !.damageCalls = g.damageCalls + 1]
       ELSE [g EXCEPT !.health = h, !.damageCalls = g.damageCalls + 1]

\* updateScore(points)
updateScore(g, points) == [g EXCEPT !.score = g.score + points]

updateLandersDestroyedUncounted(g) == updateScore(g, 50)

\* updateLandersDestroyed()
updateLandersDestroyed(g) ==
    updateScore([g EXCEPT !.landersDestroyed = g.landersDestroyed + 1], 50)

\* shootLaser(): a laser at the camera position flying along dir
NewLaser(dir) ==
    [x |-> camera.x, y |-> camera.y, z |-> camera.z,
     dx |-> dir[1], dy |-> dir[2], dz |-> dir[3]]

shootLaserFree(g, dir) ==
    IF g.energy >= laserEnergyCost
    THEN [g EXCEPT !.lasers = Append(g.lasers, NewLaser(dir))]
    ELSE g

shootLaser(g, dir) ==
    IF g.energy >= laserEnergyCost
    THEN [g EXCEPT !.lasers = Append(g.lasers, NewLaser(dir)),
                   !.energy = g.energy - laserEnergyCost]
    ELSE g

\* the spawn check at the head of the tick, with spawnLander()
SpawnCheckEager(g, z) ==
    IF now - g.lastLanderSpawn >= g.landerSpawnInterval
    THEN [g EXCEPT !.landers = Append(g.landers, NewLander(z)),
                   !.lastLanderSpawn = now, !.spawned = TRUE]
    ELSE g

SpawnCheckStale(g, z) ==
    IF now - g.lastLanderSpawn > g.landerSpawnInterval
    THEN [g EXCEPT !.landers = Append(g.landers, StaleLander(z)),
                   !.lastLanderSpawn = now, !.spawned = TRUE]
    ELSE g

SpawnCheckCapped(g, z) ==
    IF now - g.lastLanderSpawn > g.landerSpawnInterval /\ Len(g.landers) < g.maxEnemies
    THEN [g EXCEPT !.landers = Append(g.landers, NewLander(z)),
                   !.lastLanderSpawn = now, !.spawned = TRUE]
    ELSE g

SpawnCheck(g, z) ==
    IF now - g.lastLanderSpawn > g.landerSpawnInterval
    THEN [g EXCEPT !.landers = Append(g.landers, NewLander(z)),
                   !.lastLanderSpawn = now, !.spawned = TRUE]
    ELSE g

\* the energy recharge of the tick
Recharge(g) ==
    IF g.energy < maxEnergy
    THEN [g EXCEPT !.energy = Min(maxEnergy, g.energy + energyRechargeRate)]
    ELSE g

\* the part of updateMovement() that touches the simulation: a held thrust
\* key drains energy.  The camera's own motion is not modelled.
updateMovement(g) ==
    IF "q" \in keys \/ "e" \in keys
    THEN [g EXCEPT !.energy = Max(0, g.energy - thrustEnergyCost)]
    ELSE g

(***************************************************************************)
(* Methods used by the second version, and defined first (and then         *)
(* overridden) in the first version                                        *)
(***************************************************************************)
\* mesh.intersectsMesh(other, false): the bounding spheres and the bounding
\* boxes of two meshes about two units across overlap
Intersects(a, b) ==
    /\ Abs(a.x - b.x) <= meshExtent
    /\ Abs(a.y - b.y) <= meshExtent
    /\ Abs(a.z - b.z) <= meshExtent
    /\ Dist2(a, b) <= meshSphere2

\* updateAstronauts(), lines 800-811 and 2261-2272
WrapAstronautAtKeepInitial(a, gamePlaneZ) ==
    LET z == a.initialZ + gamePlaneZ
    IN IF z < landerMinZ
       THEN [a EXCEPT !.z = z + astronautWrap]
       ELSE [a EXCEPT !.z = z]

\* the loop body, for the plane offset gamePlane.position.z
WrapAstronautAt(a, gamePlaneZ) ==
    LET z == a.initialZ + gamePlaneZ
    IN IF z < landerMinZ
       THEN [a EXCEPT !.z = z + astronautWrap, !.initialZ = a.initialZ + astronautWrap]
       ELSE [a EXCEPT !.z = z]

WrapAstronaut(a) == WrapAstronautAt(a, GamePlaneZ)

updateAstronautsA(g) ==
    [g EXCEPT !.astronauts = [k \in 1..Len(g.astronauts) |-> WrapAstronaut(g.astronauts[k])]]

\* the highest index j whose astronaut the lander intersects, 0 if none
RECURSIVE HitAstronaut(_, _, _)
HitAstronaut(l, as, j) ==
    IF j < 1 THEN 0
    ELSE IF Intersects(l, AstronautPos(as[j])) THEN j
         ELSE HitAstronaut(l, as, j - 1)

\* the contents of the array lander l searches: the game's collection when
\* it is the same array, and nothing when it is the array the game dropped
Held(g, l) == IF l.astronauts = AstronautsArray THEN g.astronauts ELSE <<>>

\* the log of a frame's lander-update passes: the landers live when the
\* pass began, the loop bodies it executed, the astronauts it removed
BeginPass(g) ==
    [g EXCEPT !.passes = Append(g.passes,
                                [live |-> Len(g.landers), updated |-> 0, eaten |-> 0])]

Visit(g) == [g EXCEPT !.passes[Len(g.passes)].updated = @ + 1]

Eat(g) == [g EXCEPT !.passes[Len(g.passes)].eaten = @ + 1]

RECURSIVE LandersLoopInclusive(_, _)
LandersLoopInclusive(g, i) ==
    IF i < 1 THEN g
    ELSE LET l == LanderUpdate(g.landers[i], Held(g, g.landers[i]), GamePlaneZ)
             moved == [Visit(g) EXCEPT !.landers[i] = l]
             j == HitAstronaut(l, g.astronauts, Len(g.astronauts))
         IN IF Dist2(l, camera) <= playerHitRange * playerHitRange
            THEN LandersLoopInclusive(
                    [takeDamage(moved, landerDamage) EXCEPT
                         !.landers = Splice(moved.landers, i),
                         !.bumps = Append(moved.bumps, l)],
                    i - 1)
            ELSE IF j > 0
                 THEN Eat([moved EXCEPT !.landers = Splice(moved.landers, i),
                                        !.astronauts = Splice(moved.astronauts, j)])
                 ELSE IF l.z < landerMinZ
                      THEN LandersLoopInclusive([moved EXCEPT !.landers = Splice(moved.landers, i)], i - 1)
                      ELSE LandersLoopInclusive(moved, i - 1)

\* updateLanders(), lines 555-591 and 2023-2059: the loop body for index i
\* and the indexes below it
RECURSIVE LandersLoopA(_, _)
LandersLoopA(g, i) ==
    IF i < 1 THEN g
    ELSE LET l == LanderUpdate(g.landers[i], Held(g, g.landers[i]), GamePlaneZ)
             moved == [Visit(g) EXCEPT !.landers[i] = l]
             j == HitAstronaut(l, g.astronauts, Len(g.astronauts))
         IN IF Dist2(l, camera) < playerHitRange * playerHitRange
            THEN LandersLoopA(
                    [takeDamage(moved, landerDamage) EXCEPT
                         !.landers = Splice(moved.landers, i),
                         !.bumps = Append(moved.bumps, l)],
                    i - 1)
            ELSE IF j > 0
                 THEN Eat([moved EXCEPT !.landers = Splice(moved.landers, i),
                                        !.astronauts = Splice(moved.astronauts, j)])
                 ELSE IF l.z < landerMinZ
                      THEN LandersLoopA([moved EXCEPT !.landers = Splice(moved.landers, i)], i - 1)
                      ELSE LandersLoopA(moved, i - 1)

updateLandersA(g) == LandersLoopA(BeginPass(g), Len(g.landers))

MoveLaser(l) ==
    [l EXCEPT !.x = l.x + l.dx * laserSpeed, !.y = l.y + l.dy * laserSpeed,
              !.z = l.z + l.dz * laserSpeed]

\* the highest index j whose lander the laser intersects, 0 if none
RECURSIVE HitLander(_, _, _)
HitLander(l, ls, j) ==
    IF j < 1 THEN 0
    ELSE IF Intersects(l, ls[j]) THEN j
         ELSE HitLander(l, ls, j - 1)

RECURSIVE LasersLoopNoReturn(_, _)
LasersLoopNoReturn(g, i) ==
    IF i < 1 THEN g
    ELSE LET l == MoveLaser(g.lasers[i])
             moved == [g EXCEPT !.lasers[i] = l]
             j == HitLander(l, g.landers, Len(g.landers))
         IN IF j > 0
            THEN LasersLoopNoReturn(
                    updateLandersDestroyed(
                        [moved EXCEPT !.lasers = Splice(moved.lasers, i),
                                      !.landers = Splice(moved.landers, j),
                                      !.hits = Append(moved.hits,
                                                      [laser |-> l, lander |-> moved.landers[j]])]),
                    i - 1)
            ELSE IF Dist2(l, camera) > laserMaxRange * laserMaxRange
                 THEN LasersLoopNoReturn([moved EXCEPT !.lasers = Splice(moved.lasers, i)], i - 1)
                 ELSE LasersLoopNoReturn(moved, i - 1)

\* updateLasers(), lines 511-538 and 1983-2010
RECURSIVE LasersLoopA(_, _)
LasersLoopA(g, i) ==
    IF i < 1 THEN g
    ELSE LET l == MoveLaser(g.lasers[i])
             moved == [g EXCEPT !.lasers[i] = l]
             j == HitLander(l, g.landers, Len(g.landers))
         IN IF j > 0
            THEN updateLandersDestroyed(
                    [moved EXCEPT !.lasers = Splice(moved.lasers, i),
                                  !.landers = Splice(moved.landers, j),
                                  !.hits = Append(moved.hits,
                                                  [laser |-> l, lander |-> moved.landers[j]])])
            ELSE IF Dist2(l, camera) > laserMaxRange * laserMaxRange
                 THEN LasersLoopA([moved EXCEPT !.lasers = Splice(moved.lasers, i)], i - 1)
                 ELSE LasersLoopA(moved, i - 1)

updateLasersA(g) == LasersLoopA(g, Len(g.lasers))

(***************************************************************************)
(* The later definitions of the first version (lines 1431-1513), which are *)
(* the ones its Game objects run                                           *)
(***************************************************************************)
\* updateLasers(), lines 1431-1439
RECURSIVE LasersLoopB(_, _)
LasersLoopB(g, i) ==
    IF i < 1 THEN g
    ELSE IF g.lasers[i].y > laserMaxY \/ g.lasers[i].y < -laserMaxY
         THEN LasersLoopB([g EXCEPT !.lasers = Splice(g.lasers, i)], i - 1)
         ELSE LasersLoopB(g, i - 1)

updateLasersB(g) == LasersLoopB(g, Len(g.lasers))

\* updateLanders(), lines 1441-1454: the elements of landers are Lander
\* objects, which have a mesh but no position, so lander.position.y throws
\* a TypeError on the first element
updateLandersB(g) ==
    IF Len(g.landers) > 0 THEN [g EXCEPT !.thrown = TRUE] ELSE g

RECURSIVE AstronautsLoopHarsh(_, _)
AstronautsLoopHarsh(g, i) ==
    IF i < 1 THEN g
    ELSE LET y == g.astronauts[i].y - 3 * g.gameSpeed
         IN IF y < astronautMinY
            THEN AstronautsLoopHarsh(
                    updateScore([g EXCEPT !.astronauts = Splice(g.astronauts, i),
                                          !.lost = g.lost + 1], -75),
                    i - 1)
            ELSE AstronautsLoopHarsh([g EXCEPT !.astronauts[i].y = y], i - 1)

RECURSIVE AstronautsLoopKeep(_, _)
AstronautsLoopKeep(g, i) ==
    IF i < 1 THEN g
    ELSE AstronautsLoopKeep(
            [g EXCEPT !.astronauts[i].y = g.astronauts[i].y - 3 * g.gameSpeed],
            i - 1)

\* updateAstronauts(), lines 1456-1470
RECURSIVE AstronautsLoopB(_, _)
AstronautsLoopB(g, i) ==
    IF i < 1 THEN g
    ELSE LET y == g.astronauts[i].y - 3 * g.gameSpeed
         IN IF y < astronautMinY
            THEN AstronautsLoopB(
                    updateScore([g EXCEPT !.astronauts = Splice(g.astronauts, i),
                                          !.lost = g.lost + 1], -50),
                    i - 1)
            ELSE AstronautsLoopB([g EXCEPT !.astronauts[i].y = y], i - 1)

updateAstronautsB(g) == AstronautsLoopB(g, Len(g.astronauts))

\* checkCollisions(), lines 1484-1513: checkObjectCollision reads
\* lander.position, which a Lander object does not have, so the first pair
\* examined throws a TypeError
checkCollisions(g) ==
    IF Len(g.lasers) > 0 /\ Len(g.landers) > 0 THEN [g EXCEPT !.thrown = TRUE] ELSE g

\* updateDifficulty(), lines 1472-1482
DifficultyAt(elapsed) == Min(maxDifficulty, 1 + elapsed \div difficultyPeriod)
SpawnIntervalAt(d) == Max(1000, 3000 - d * 200)
MaxEnemiesAt(d) == 5 + d \div 2

updateDifficulty(g) ==
    LET d == DifficultyAt(now - startTime)
    IN [g EXCEPT !.difficulty = d, !.gameSpeed = 10 + d,
                 !.landerSpawnInterval = SpawnIntervalAt(d),
                 !.maxEnemies = MaxEnemiesAt(d)]

(***************************************************************************)
(* One iteration of the engine's render loop                               *)
(***************************************************************************)
\* a catch block that logs and clears isRunning (lines 193-196, 1425-1428)
CaughtKeepRunning(r) ==
    IF r.thrown
    THEN [r EXCEPT !.thrown = FALSE, !.faulted = TRUE]
    ELSE r

Caught(r) ==
    IF r.thrown
    THEN [r EXCEPT !.thrown = FALSE, !.faulted = TRUE, !.isRunning = FALSE]
    ELSE r

\* setupControls' observer, lines 383-387
ControlsObserver1(g) ==
    IF g.thrown THEN g
    ELSE updateLandersB(Begin(
             updateLasersB(Begin(
                 updateMovement(Begin(g, "controls", "updateMovement")),
                 "controls", "updateLasers")),
             "controls", "updateLanders"))

\* createScene's observer, lines 695-711
SceneObserverLanders1(g) ==
    IF Len(g.landers) > 0
    THEN updateLandersB(Begin(g, "scene", "updateLanders"))
    ELSE g

SceneObserver1(g) ==
    SceneObserverLanders1(IF Len(g.astronauts) > 0
                          THEN updateAstronautsB(Begin(g, "scene", "updateAstronauts"))
                          ELSE g)

\* scene.render() of the first version: the onBeforeRender observers in the
\* order they were registered, createScene's and then setupControls'.  An
\* exception ends the notification.
SceneRender1(g) == ControlsObserver1(SceneObserver1(g))

\* update(), lines 1396-1429: the try block from checkCollisions on, from
\* updateAstronauts on, and as a whole
UpdateAfterCollisions(g) ==
    IF g.thrown THEN g ELSE updateDifficulty(Begin(g, "update", "updateDifficulty"))

UpdateAfterLanders(g) ==
    IF g.thrown THEN g
    ELSE UpdateAfterCollisions(
             checkCollisions(Begin(
                 updateAstronautsB(Begin(g, "update", "updateAstronauts")),
                 "update", "checkCollisions")))

UpdateBodyMoveFirst(g, z) ==
    UpdateAfterLanders(
        updateLandersB(Begin(
            updateLasersB(Begin(
                SpawnCheck(Begin(g, "update", "spawn"), z),
                "update", "updateLasers")),
            "update", "updateLanders")))

UpdateBody(g, z) ==
    UpdateAfterLanders(
        updateLandersB(Begin(
            updateLasersB(Begin(
                Recharge(Begin(
                    SpawnCheck(Begin(g, "update", "spawn"), z),
                    "update", "energy")),
                "update", "updateLasers")),
            "update", "updateLanders")))

update(g, z) ==
    IF ~g.isRunning \/ g.isGameOver THEN g
    ELSE Caught(UpdateBody([g EXCEPT !.ran = TRUE], z))

\* the render function registered by setupRenderLoop(), lines 185-197
RenderLoop1(g, z) ==
    IF ~g.isRunning THEN g
    ELSE Caught(SceneRender1(update(g, z)))

\* the render functions registered by start(), lines 1259-1263; an exception
\* leaves the engine's loop over its render functions
RECURSIVE StartLoops(_, _)
StartLoops(g, n) ==
    IF n = 0 \/ g.thrown THEN g
    ELSE StartLoops(IF g.isRunning THEN SceneRender1(g) ELSE g, n - 1)

Escaped(r) ==
    IF r.thrown
    THEN [r EXCEPT !.thrown = FALSE, !.faulted = TRUE, !.escaped = TRUE]
    ELSE r

\* scene.render() of the second version: createScene's observer (lines
\* 2162-2176), then setupControls' (lines 1855-1859)
SceneRender2(g) ==
    updateLandersA(Begin(
        updateLasersA(Begin(
            updateMovement(Begin(
                updateLandersA(Begin(
                    updateAstronautsA(Begin(g, "scene", "updateAstronauts")),
                    "scene", "updateLanders")),
                "controls", "updateMovement")),
            "controls", "updateLasers")),
        "controls", "updateLanders"))

\* the render function of the second version's constructor, lines 1663-1680
RenderLoop2(g, z) ==
    SceneRender2(IF ~g.isGameOver
                 THEN Recharge(Begin(
                          SpawnCheck(Begin([g EXCEPT !.ran = TRUE], "loop", "spawn"), z),
                          "loop", "energy"))
                 ELSE g)

RenderFrame(g, z) ==
    IF cls = 1
    THEN Escaped(StartLoops(RenderLoop1(g, z), extraLoops))
    ELSE RenderLoop2(g, z)

(***************************************************************************)
(* Initial state: the state the constructor leaves                         *)
(***************************************************************************)
NewAstronaut(x, z) == [x |-> x, y |-> 0, z |-> z, initialZ |-> z]

\* createAstronauts() places ten astronauts at random x, z in [-400, 400)
AstronautLayouts ==
    { [k \in 1..astronautCount |->
          IF k = 1 THEN NewAstronaut(3980, 0)
          ELSE NewAstronaut(700 * k - 3900, 400 * k - 2000)] }

InitCommon ==
    /\ cls \in {1, 2}
    /\ isRunning = FALSE
    /\ isGameOver = FALSE
    /\ health = maxHealth
    /\ energy = maxEnergy
    /\ score = 0
    /\ astronautsSaved = 0
    /\ landersDestroyed = 0
    /\ canShoot = TRUE
    /\ timers = {}
    /\ keys = {}
    /\ now = Epoch
    /\ startTime = Epoch
    /\ lastLanderSpawn = 0
    /\ difficulty = 1
    /\ gameSpeed = 10
    /\ landerSpawnInterval = initialSpawnInterval
    /\ maxEnemies = 5
    /\ lasers = <<>>
    /\ camera = Vec(0, 100, -80)
    /\ extraLoops = 0
    /\ gameOverShown = 0
    /\ frames = 0
    /\ damageCalls = 0
    /\ restarted = FALSE
    /\ hist = [halted |-> FALSE, sinceShot |-> shootCooldown, running |-> 0]
    /\ ev = NoEvent

Init ==
    /\ InitCommon
    /\ landers = <<>>
    /\ astronauts \in AstronautLayouts

(***************************************************************************)
(* Operations                                                              *)
(***************************************************************************)
\* start(), lines 1244-1271 and 2703-2707.  The engine object has no
\* isRunning property, so the first version registers one more render
\* function on every call.
StartResetHealth ==
    /\ extraLoops < MaxStarts
    /\ isRunning' = TRUE
    /\ health' = maxHealth
    /\ IF cls = 1
       THEN /\ isGameOver' = FALSE
            /\ startTime' = now
            /\ extraLoops' = extraLoops + 1
       ELSE UNCHANGED <<isGameOver, startTime, extraLoops>>
    /\ restarted' = (restarted \/ damageCalls > 0)
    /\ hist' = [hist EXCEPT !.halted = FALSE,
                            !.running = IF cls = 1 THEN 0 ELSE @]
    /\ ev' = Event("other")
    /\ UNCHANGED <<cls, energy, score, astronautsSaved, landersDestroyed,
                   canShoot, timers, keys, now, lastLanderSpawn, difficulty,
                   gameSpeed, landerSpawnInterval, maxEnemies, lasers, landers,
                   astronauts, camera, gameOverShown, frames, damageCalls>>

Start ==
    /\ extraLoops < MaxStarts
    /\ isRunning' = TRUE
    /\ IF cls = 1
       THEN /\ isGameOver' = FALSE
            /\ startTime' = now
            /\ extraLoops' = extraLoops + 1
       ELSE UNCHANGED <<isGameOver, startTime, extraLoops>>
    /\ restarted' = (restarted \/ damageCalls > 0)
    /\ hist' = [hist EXCEPT !.halted = FALSE,
                            !.running = IF cls = 1 THEN 0 ELSE @]
    /\ ev' = Event("other")
    /\ UNCHANGED <<cls, health, energy, score, astronautsSaved, landersDestroyed,
                   canShoot, timers, keys, now, lastLanderSpawn, difficulty,
                   gameSpeed, landerSpawnInterval, maxEnemies, lasers, landers,
                   astronauts, camera, gameOverShown, frames, damageCalls>>

\* pause(), lines 1273-1276 and 2709-2712
Pause ==
    /\ isRunning' = FALSE
    /\ ev' = Event("other")
    /\ UNCHANGED <<cls, isGameOver, health, energy, score, astronautsSaved,
                   landersDestroyed, canShoot, timers, keys, now, startTime,
                   lastLanderSpawn, difficulty, gameSpeed, landerSpawnInterval,
                   maxEnemies, lasers, landers, astronauts, camera, extraLoops,
                   gameOverShown, frames, damageCalls, restarted, hist>>

\* resume(), lines 1278-1281 and 2714-2717
Resume ==
    /\ isRunning' = TRUE
    /\ hist' = [hist EXCEPT !.halted = FALSE]
    /\ ev' = Event("other")
    /\ UNCHANGED <<cls, isGameOver, health, energy, score, astronautsSaved,
                   landersDestroyed, canShoot, timers, keys, now, startTime,
                   lastLanderSpawn, difficulty, gameSpeed, landerSpawnInterval,
                   maxEnemies, lasers, landers, astronauts, camera, extraLoops,
                   gameOverShown, frames, damageCalls, restarted>>

\* a call of takeDamage(20), the only amount the code passes
TakeDamage ==
    /\ damageCalls < MaxDamageCalls
    /\ LET g == takeDamage(This, landerDamage)
       IN /\ health' = g.health
          /\ isGameOver' = g.isGameOver
          /\ gameOverShown' = g.gameOverShown
          /\ damageCalls' = g.damageCalls
    /\ ev' = Event("takeDamage")
    /\ UNCHANGED <<cls, isRunning, energy, score, astronautsSaved,
                   landersDestroyed, canShoot, timers, keys, now, startTime,
                   lastLanderSpawn, difficulty, gameSpeed, landerSpawnInterval,
                   maxEnemies, lasers, landers, astronauts, camera, extraLoops,
                   frames, restarted, hist>>

\* the keydown handler for the space bar, lines 349-360 and 1821-1832
KeySpace(dir, maxLasers) ==
    /\ Len(lasers) < maxLasers
    /\ IF canShoot
       THEN LET g == shootLaser(This, dir)
            IN /\ energy' = g.energy
               /\ lasers' = g.lasers
               /\ canShoot' = FALSE
               /\ timers' = timers \cup {now + shootCooldown}
               /\ hist' = [hist EXCEPT !.sinceShot = 0]
       ELSE UNCHANGED <<energy, lasers, canShoot, timers, hist>>
    /\ ev' = [Event("keySpace") EXCEPT !.gate = canShoot,
                                       !.fired = canShoot /\ energy >= laserEnergyCost]
    /\ UNCHANGED <<cls, isRunning, isGameOver, health, score, astronautsSaved,
                   landersDestroyed, keys, now, startTime, lastLanderSpawn,
                   difficulty, gameSpeed, landerSpawnInterval, maxEnemies,
                   landers, astronauts, camera, extraLoops, gameOverShown,
                   frames, damageCalls, restarted>>

\* the callback of the cooldown's setTimeout, lines 356-358 and 1828-1830
CooldownTimerEarly ==
    /\ \E d \in timers : timers' = timers \ {d}
    /\ canShoot' = TRUE
    /\ ev' = Event("other")
    /\ UNCHANGED <<cls, isRunning, isGameOver, health, energy, score,
                   astronautsSaved, landersDestroyed, keys, now, startTime,
                   lastLanderSpawn, difficulty, gameSpeed, landerSpawnInterval,
                   maxEnemies, lasers, landers, astronauts, camera, extraLoops,
                   gameOverShown, frames, damageCalls, restarted, hist>>

CooldownTimer ==
    /\ \E d \in timers :
          /\ d <= now
          /\ timers' = timers \ {d}
    /\ canShoot' = TRUE
    /\ ev' = Event("other")
    /\ UNCHANGED <<cls, isRunning, isGameOver, health, energy, score,
                   astronautsSaved, landersDestroyed, keys, now, startTime,
                   lastLanderSpawn, difficulty, gameSpeed, landerSpawnInterval,
                   maxEnemies, lasers, landers, astronauts, camera, extraLoops,
                   gameOverShown, frames, damageCalls, restarted, hist>>

\* keydown / keyup of a thrust key, lines 349-364 and 1821-1836
KeyDown(k) ==
    /\ k \notin keys
    /\ keys' = keys \cup {k}
    /\ ev' = Event("other")
    /\ UNCHANGED <<cls, isRunning, isGameOver, health, energy, score,
                   astronautsSaved, landersDestroyed, canShoot, timers, now,
                   startTime, lastLanderSpawn, difficulty, gameSpeed,
                   landerSpawnInterval, maxEnemies, lasers, landers, astronauts,
                   camera, extraLoops, gameOverShown, frames, damageCalls,
                   restarted, hist>>

KeyUp(k) ==
    /\ k \in keys
    /\ keys' = keys \ {k}
    /\ ev' = Event("other")
    /\ UNCHANGED <<cls, isRunning, isGameOver, health, energy, score,
                   astronautsSaved, landersDestroyed, canShoot, timers, now,
                   startTime, lastLanderSpawn, difficulty, gameSpeed,
                   landerSpawnInterval, maxEnemies, lasers, landers, astronauts,
                   camera, extraLoops, gameOverShown, frames, damageCalls,
                   restarted, hist>>

\* the clock, Date.now()
AdvanceTime(dt, maxTime) ==
    /\ now + dt <= Epoch + maxTime
    /\ now' = now + dt
    /\ hist' = [hist EXCEPT !.sinceShot = Min(shootCooldown, hist.sinceShot + dt)]
    /\ ev' = Event("other")
    /\ UNCHANGED <<cls, isRunning, isGameOver, health, energy, score,
                   astronautsSaved, landersDestroyed, canShoot, timers, keys,
                   startTime, lastLanderSpawn, difficulty, gameSpeed,
                   landerSpawnInterval, maxEnemies, lasers, landers, astronauts,
                   camera, extraLoops, gameOverShown, frames, damageCalls,
                   restarted>>

\* the game object after a handler, written back to the variables
Store(g) ==
    /\ isRunning' = g.isRunning
    /\ isGameOver' = g.isGameOver
    /\ health' = g.health
    /\ energy' = g.energy
    /\ score' = g.score
    /\ astronautsSaved' = g.astronautsSaved
    /\ landersDestroyed' = g.landersDestroyed
    /\ lastLanderSpawn' = g.lastLanderSpawn
    /\ difficulty' = g.difficulty
    /\ gameSpeed' = g.gameSpeed
    /\ landerSpawnInterval' = g.landerSpawnInterval
    /\ maxEnemies' = g.maxEnemies
    /\ lasers' = g.lasers
    /\ landers' = g.landers
    /\ astronauts' = g.astronauts
    /\ gameOverShown' = g.gameOverShown
    /\ damageCalls' = g.damageCalls
    /\ hist' = [hist EXCEPT !.halted = hist.halted \/ g.faulted]
    /\ ev' = [NoEvent EXCEPT !.op = "frame", !.ran = g.ran,
                             !.faulted = g.faulted, !.escaped = g.escaped,
                             !.spawned = g.spawned, !.steps = g.steps,
                             !.hits = g.hits, !.bumps = g.bumps,
                             !.lost = g.lost, !.passes = g.passes]

\* one iteration of the engine's render loop; z is the Math.random() depth
\* spawnLander() would draw
Frame(z, maxFrames) ==
    /\ frames < maxFrames
    /\ frames' = frames + 1
    /\ Store(RenderFrame(This, z))
    /\ UNCHANGED <<cls, canShoot, timers, keys, now, startTime, camera,
                   extraLoops, restarted>>

Next ==
    \/ Start
    \/ Pause
    \/ Resume
    \/ TakeDamage
    \/ \E dir \in LaserDirs : KeySpace(dir, MaxLasers)
    \/ CooldownTimer
    \/ \E k \in ThrustKeys : KeyDown(k)
    \/ \E k \in ThrustKeys : KeyUp(k)
    \/ \E dt \in TimeSteps : AdvanceTime(dt, MaxTime)
    \/ \E z \in SpawnZs : Frame(z, MaxFrames)

Spec == Init /\ [][Next]_vars

(***************************************************************************)
(* The firing economy: fire attempts, cooldowns, thrust and frames over a  *)
(* longer stretch of time                                                 *)
(***************************************************************************)
\* the state index.html leaves: new Game('renderCanvas') and then game.start()
InitStarted ==
    /\ cls \in {1, 2}
    /\ isRunning = TRUE
    /\ isGameOver = FALSE
    /\ health = maxHealth
    /\ energy = maxEnergy
    /\ score = 0
    /\ astronautsSaved = 0
    /\ landersDestroyed = 0
    /\ canShoot = TRUE
    /\ timers = {}
    /\ keys = {}
    /\ now = Epoch
    /\ startTime = Epoch
    /\ lastLanderSpawn = 0
    /\ difficulty = 1
    /\ gameSpeed = 10
    /\ landerSpawnInterval = initialSpawnInterval
    /\ maxEnemies = 5
    /\ lasers = <<>>
    /\ landers = <<>>
    /\ astronauts \in AstronautLayouts
    /\ camera = Vec(0, 100, -80)
    /\ extraLoops = (IF cls = 1 THEN 1 ELSE 0)
    /\ gameOverShown = 0
    /\ frames = 0
    /\ damageCalls = 0
    /\ restarted = FALSE
    /\ hist = [halted |-> FALSE, sinceShot |-> shootCooldown, running |-> 0]
    /\ ev = Event("other")

NextFire ==
    \/ TakeDamage
    \/ \E dir \in FireDirs : KeySpace(dir, FireMaxLasers)
    \/ CooldownTimer
    \/ \E k \in ThrustKeys : KeyDown(k)
    \/ \E k \in ThrustKeys : KeyUp(k)
    \/ \E dt \in TimeSteps : AdvanceTime(dt, FireMaxTime)
    \/ \E z \in FireSpawnZs : Frame(z, FireMaxFrames)

SpecFire == InitStarted /\ [][NextFire]_vars

(***************************************************************************)
(* Lander.update on its own: a lander and an astronaut collection drawn    *)
(* from small sets, updated a few times                                    *)
(***************************************************************************)
AstronautChoices ==
    { NewAstronaut(x, z) : x \in AstronautXs, z \in AstronautZs }

AstronautCollections ==
    UNION { [1..n -> AstronautChoices] : n \in 0..MaxAstronauts }

InitLander ==
    /\ InitCommon
    /\ astronauts \in AstronautCollections
    /\ \E x \in LanderXs, z \in LanderZs :
          landers = << [NewLander(z) EXCEPT !.x = x] >>

\* lander.update(gamePlaneZ) on the i-th live lander
LanderStep(i, gamePlaneZ) ==
    /\ frames < MaxUpdates
    /\ frames' = frames + 1
    /\ landers' = [landers EXCEPT ![i] = LanderUpdate(landers[i], astronauts, gamePlaneZ)]
    /\ ev' = Event("landerUpdate")
    /\ UNCHANGED <<cls, isRunning, isGameOver, health, energy, score,
                   astronautsSaved, landersDestroyed, canShoot, timers, keys,
                   now, startTime, lastLanderSpawn, difficulty, gameSpeed,
                   landerSpawnInterval, maxEnemies, lasers, astronauts, camera,
                   extraLoops, gameOverShown, damageCalls, restarted, hist>>

NextLander == \E i \in 1..Len(landers), gz \in PlaneZs : LanderStep(i, gz)

SpecLander == InitLander /\ [][NextLander]_vars

(***************************************************************************)
(* The spawner: a started game over several seconds, with frames and        *)
(* resume() calls                                                           *)
(***************************************************************************)
NextSpawn ==
    \/ Resume
    \/ \E dt \in SpawnSteps : AdvanceTime(dt, SpawnMaxTime)
    \/ \E z \in FireSpawnZs : Frame(z, SpawnMaxFrames)

SpecSpawn == InitStarted /\ [][NextSpawn]_vars

(***************************************************************************)
(* The shot cooldown: fire attempts and timer callbacks on a finer clock    *)
(***************************************************************************)
NextCooldown ==
    \/ \E dir \in FireDirs : KeySpace(dir, CooldownMaxLasers)
    \/ CooldownTimer
    \/ \E dt \in CooldownSteps : AdvanceTime(dt, CooldownMaxTime)

SpecCooldown == InitStarted /\ [][NextCooldown]_vars

(***************************************************************************)
(* Collisions: a started game in mid-play, with landers, projectiles and    *)
(* astronauts where the game can have brought them.  In the second version  *)
(* (and only there) landers and projectiles move, so they are drawn near    *)
(* the player, who stands on the ground (camera y = ground height + 2); in  *)
(* the first version a lander stays where it was spawned and a projectile   *)
(* where it was fired, while astronauts fall.                               *)
(***************************************************************************)
PlayerPos == Vec(0, 20, -80)

LanderAt(x, z) == [NewLander(z) EXCEPT !.x = x]

LaserAt(x, y, z) == [x |-> x, y |-> y, z |-> z, dx |-> 0, dy |-> 0, dz |-> 10]

\* sequences of at most n distinct elements of S
DistinctSeqs(S, n) ==
    UNION { { q \in [1..k -> S] : \A a, b \in 1..k : a # b => q[a] # q[b] } : k \in 0..n }

CollideLanders ==
    IF cls = 1
    THEN { NewLander(0), NewLander(500) }
    ELSE { LanderAt(10, -80), LanderAt(20, -90), LanderAt(200, -80), LanderAt(260, -80) }

CollideLasers ==
    IF cls = 1
    THEN { LaserAt(PlayerPos.x, PlayerPos.y, PlayerPos.z) }
    ELSE { LaserAt(200, 0, -100), LaserAt(190, 0, -100), LaserAt(260, 0, -100) }

CollideAstronauts ==
    IF cls = 1
    THEN { <<>>, << NewAstronaut(100, 0) >>,
           << [NewAstronaut(100, 0) EXCEPT !.y = astronautMinY + 10] >> }
    ELSE { <<>>, << NewAstronaut(3000, -80) >> }

InitCollide ==
    /\ cls \in {1, 2}
    /\ isRunning = TRUE
    /\ isGameOver = FALSE
    \* only the second version ever calls takeDamage
    /\ health \in (IF cls = 1 THEN {maxHealth} ELSE {maxHealth, landerDamage})
    /\ energy = maxEnergy
    /\ score = 0
    /\ astronautsSaved = 0
    /\ landersDestroyed = 0
    /\ canShoot = TRUE
    /\ timers = {}
    /\ keys = {}
    /\ now = Epoch
    /\ startTime = Epoch
    /\ lastLanderSpawn = Epoch
    /\ difficulty = 1
    /\ gameSpeed = 10
    /\ landerSpawnInterval = initialSpawnInterval
    /\ maxEnemies = 5
    /\ lasers \in DistinctSeqs(CollideLasers, CollideMaxObjects)
    /\ landers \in DistinctSeqs(CollideLanders, CollideMaxObjects)
    \* the first tick of the first version spawns a lander, and none of its
    \* landers is ever removed
    /\ cls = 1 => Len(landers) > 0
    /\ astronauts \in CollideAstronauts
    /\ camera = PlayerPos
    /\ extraLoops = (IF cls = 1 THEN 1 ELSE 0)
    /\ gameOverShown = 0
    /\ frames = 0
    /\ damageCalls = 0
    /\ restarted = FALSE
    /\ hist = [halted |-> FALSE, sinceShot |-> shootCooldown, running |-> 0]
    /\ ev = Event("other")

NextCollide ==
    \/ Start
    \/ Pause
    \/ Resume
    \/ \E z \in FireSpawnZs : Frame(z, CollideMaxFrames)

SpecCollide == InitCollide /\ [][NextCollide]_vars

(***************************************************************************)
(* updateAstronauts on its own: an astronaut collection drawn from small   *)
(* sets, updated a few times on plane offsets that reach the wrap limit    *)
(***************************************************************************)
InitWrap ==
    /\ InitCommon
    /\ landers = <<>>
    /\ astronauts \in AstronautCollections

\* updateAstronauts() with gamePlane.position.z = gamePlaneZ
AstronautStep(gamePlaneZ) ==
    /\ frames < MaxUpdates
    /\ frames' = frames + 1
    /\ astronauts' = [k \in 1..Len(astronauts) |-> WrapAstronautAt(astronauts[k], gamePlaneZ)]
    /\ ev' = Event("astronautUpdate")
    /\ UNCHANGED <<cls, isRunning, isGameOver, health, energy, score,
                   astronautsSaved, landersDestroyed, canShoot, timers, keys,
                   now, startTime, lastLanderSpawn, difficulty, gameSpeed,
                   landerSpawnInterval, maxEnemies, lasers, landers, camera,
                   extraLoops, gameOverShown, damageCalls, restarted, hist>>

NextWrap == \E gz \in ScrollZs : AstronautStep(gz)

SpecWrap == InitWrap /\ [][NextWrap]_vars

(***************************************************************************)
(* The spawner over six spawn intervals, one frame after each              *)
(***************************************************************************)
NextCrowd ==
    \/ Resume
    \/ \E dt \in CrowdSteps : AdvanceTime(dt, CrowdMaxTime)
    \/ \E z \in FireSpawnZs : Frame(z, CrowdMaxFrames)

SpecCrowd == InitStarted /\ [][NextCrowd]_vars

(***************************************************************************)
(* Lander predation in the second version: a started game in mid-play with *)
(* landers that have closed in on astronauts standing on the player's z    *)
(* line, one lander next to the player, and a spawn falling due            *)
(***************************************************************************)
PassAstronauts ==
    { <<>>,
      << NewAstronaut(1000, -80) >>,
      << NewAstronaut(1000, -80), NewAstronaut(-1000, -80) >>,
      << NewAstronaut(-1000, -80), NewAstronaut(1000, -80) >> }

PassLanders ==
    { LanderAt(1010, -80), LanderAt(-990, -80), LanderAt(500, -80), LanderAt(10, -80) }

InitPass ==
    /\ cls = 2
    /\ isRunning = TRUE
    /\ isGameOver = FALSE
    /\ health = maxHealth
    /\ energy = maxEnergy
    /\ score = 0
    /\ astronautsSaved = 0
    /\ landersDestroyed = 0
    /\ canShoot = TRUE
    /\ timers = {}
    /\ keys = {}
    /\ now = Epoch
    /\ startTime = Epoch
    /\ lastLanderSpawn = Epoch
    /\ difficulty = 1
    /\ gameSpeed = 10
    /\ landerSpawnInterval = initialSpawnInterval
    /\ maxEnemies = 5
    /\ lasers = <<>>
    /\ landers \in DistinctSeqs(PassLanders, PassMaxObjects)
    /\ astronauts \in PassAstronauts
    /\ camera = PlayerPos
    /\ extraLoops = 0
    /\ gameOverShown = 0
    /\ frames = 0
    /\ damageCalls = 0
    /\ restarted = FALSE
    /\ hist = [halted |-> FALSE, sinceShot |-> shootCooldown, running |-> 0]
    /\ ev = Event("other")

NextPass ==
    \/ \E dt \in CrowdSteps : AdvanceTime(dt, PassMaxTime)
    \/ \E z \in FireSpawnZs : Frame(z, PassMaxFrames)

SpecPass == InitPass /\ [][NextPass]_vars

(***************************************************************************)
(* Mission time: a started game over a minute, paused and resumed, with    *)
(* the time spent running kept apart from the time on the clock            *)
(***************************************************************************)
\* the clock, Date.now(), which also runs while the game is paused or halted
MissionClock(dt, maxTime) ==
    /\ now + dt <= Epoch + maxTime
    /\ now' = now + dt
    /\ hist' = [hist EXCEPT !.sinceShot = Min(shootCooldown, hist.sinceShot + dt),
                            !.running = IF isRunning THEN @ + dt ELSE @]
    /\ ev' = Event("other")
    /\ UNCHANGED <<cls, isRunning, isGameOver, health, energy, score,
                   astronautsSaved, landersDestroyed, canShoot, timers, keys,
                   startTime, lastLanderSpawn, difficulty, gameSpeed,
                   landerSpawnInterval, maxEnemies, lasers, landers, astronauts,
                   camera, extraLoops, gameOverShown, frames, damageCalls,
                   restarted>>

NextMission ==
    \/ Pause
    \/ Resume
    \/ \E dt \in MissionSteps : MissionClock(dt, MissionMaxTime)
    \/ \E z \in FireSpawnZs : Frame(z, MissionMaxFrames)

SpecMission == InitStarted /\ [][NextMission]_vars

(***************************************************************************)
(* The render loop running on without end: frames are not counted, the     *)
(* engine keeps calling the render functions and the player resumes a      *)
(* halted game                                                             *)
(***************************************************************************)
\* one iteration of the engine's render loop, uncounted
Tick(z) ==
    /\ Store(RenderFrame(This, z))
    /\ UNCHANGED <<cls, canShoot, timers, keys, now, startTime, camera,
                   extraLoops, restarted, frames>>

NextLive ==
    \/ Resume
    \/ \E dir \in FireDirs : KeySpace(dir, LiveMaxLasers)
    \/ \E z \in LiveSpawnZs : Tick(z)

\* a halted or paused game is resumed
SpecLive == InitStarted /\ [][NextLive]_vars /\ WF_vars(Resume)

(***************************************************************************)
(* Properties                                                              *)
(***************************************************************************)
\* the simulation state a frozen game must keep
Simulation ==
    <<energy, health, score, astronautsSaved, landersDestroyed, landers,
      astronauts, lasers>>

Thm_C2_GameOverFiresOnce ==
    ~restarted =>
        /\ health = Max(0, maxHealth - landerDamage * damageCalls)
        /\ isGameOver = (health = 0)
        /\ gameOverShown = (IF health = 0 THEN 1 ELSE 0)

\* C2 witness: a sixth hit was applied after health reached 0 and the
\* transition has still fired once.
Wit_C2_SixthHitAfterGameOver ==
    /\ ~restarted /\ damageCalls = 6 /\ health = 0
    /\ gameOverShown = 1 /\ isGameOver /\ ev.op = "takeDamage"

\* C3 (as claimed): once the game-over transition has fired, isGameOver
\* stays true and no frame executes the body of the tick again.
CE_C3_GameOverIsTerminal ==
    gameOverShown > 0 => (isGameOver /\ ~(ev.op = "frame" /\ ev.ran))

\* C4 (as claimed): while the game is not running, key events, timer
\* callbacks and frames leave the simulation state unchanged.
CE_C4_FrozenWhileNotRunning ==
    [][(~isRunning /\ ~isRunning' /\ ev'.op \in {"keySpace", "frame", "other"})
         => UNCHANGED Simulation]_vars

\* C5 (as claimed): after the game-over transition a frame moves, removes
\* or spawns no lander or projectile and leaves energy, health and score
\* unchanged.
CE_C5_FrozenAfterGameOver ==
    [][(isGameOver /\ ev'.op = "frame")
         => UNCHANGED <<landers, lasers, energy, health, score>>]_vars

\* C6: a fire action that reaches shootLaser succeeds iff energy >=
\* laserEnergyCost: then energy drops by exactly laserEnergyCost and exactly
\* one projectile is appended; otherwise energy and the projectiles are
\* unchanged.
Thm_C6_FireCostsEnergy ==
    [][(ev'.op = "keySpace" /\ ev'.gate)
         => IF energy >= laserEnergyCost
            THEN /\ ev'.fired
                 /\ energy' = energy - laserEnergyCost
                 /\ Len(lasers') = Len(lasers) + 1
                 /\ SubSeq(lasers', 1, Len(lasers)) = lasers
            ELSE /\ ~ev'.fired
                 /\ energy' = energy
                 /\ lasers' = lasers]_vars

\* C6 witness: ten fires in a row with no frame in between emptied the pool
\* from 100, and the eleventh attempt reached shootLaser and fired nothing.
Wit_C6_EleventhFireIsNoOp ==
    /\ frames = 0 /\ Len(lasers) = 10 /\ energy = 0
    /\ ev.op = "keySpace" /\ ev.gate /\ ~ev.fired

\* C7 (as claimed): a fire attempt made with energy < laserEnergyCost
\* changes nothing, the cooldown state included.
CE_C7_FailedFireKeepsCooldown ==
    [][(ev'.op = "keySpace" /\ ev'.gate /\ energy < laserEnergyCost)
         => UNCHANGED <<energy, lasers, canShoot, timers>>]_vars

\* C8: Lander.update on a lander whose astronaut collection is empty leaves
\* the lander's x coordinate unchanged.
Thm_C8_NoAstronautNoSteer ==
    [][(ev'.op = "landerUpdate" /\ Len(astronauts) = 0)
         => \A i \in 1..Len(landers) : landers'[i].x = landers[i].x]_vars

\* C8 witness: a lander has been updated with no astronaut alive.
Wit_C8_UpdatedWithoutAstronauts ==
    /\ Len(astronauts) = 0 /\ ev.op = "landerUpdate" /\ frames = MaxUpdates
    /\ landers[1].target = 0

\* the scenario of C9: astronauts at (0,0,0) and (10,0,50), in either order
ScenarioAstronauts ==
    /\ Len(astronauts) = 2
    /\ { astronauts[1], astronauts[2] } = { NewAstronaut(0, 0), NewAstronaut(100, 500) }

\* the lander of the scenario sits at (400,0,0) and is updated on an
\* unscrolled plane
ScenarioUpdate ==
    /\ ScenarioAstronauts
    /\ landers[1].x = spawnX /\ landers[1].y = 0 /\ landers[1].initialZ = 0
    /\ ev'.op = "landerUpdate"
    /\ landers'[1].z = 0

\* C9 (as claimed): in the scenario the search selects the astronaut at
\* (0,0,0).
CE_C9_TargetsOrigin ==
    [][ScenarioUpdate
         => astronauts[landers'[1].target] = NewAstronaut(0, 0)]_vars

\* C9 (amended): in the scenario the search selects the astronaut at
\* (10,0,50), whose planar distance (about 393.2) is below the 400 of the
\* astronaut at (0,0,0), and the lander's x decreases.
Thm_C9_TargetsNearestPlanar ==
    [][ScenarioUpdate
         => /\ astronauts[landers'[1].target] = NewAstronaut(100, 500)
            /\ landers'[1].x < landers[1].x]_vars

\* C9 witness: the scenario's lander after its first update.
Wit_C9_ScenarioUpdated ==
    /\ ScenarioAstronauts /\ frames = 1 /\ ev.op = "landerUpdate"
    /\ landers[1].initialZ = 0 /\ landers[1].z = 0
    /\ landers[1].x < spawnX /\ landers[1].x >= spawnX - landerSpeed
    /\ landers[1].target > 0

\* C10 (as claimed): after every running tick of the first version the
\* stored difficulty, spawn interval and enemy cap are the ones the formulas
\* give for the elapsed time.
CE_C10_DifficultyStored ==
    (cls = 1 /\ ev.op = "frame" /\ ev.ran) =>
        /\ difficulty = DifficultyAt(now - startTime)
        /\ landerSpawnInterval = SpawnIntervalAt(difficulty)
        /\ maxEnemies = MaxEnemiesAt(difficulty)

\* C11: in a running tick a lander is spawned iff now - lastLanderSpawn >
\* landerSpawnInterval at that moment; the tick adds at most one lander and
\* a spawn sets lastLanderSpawn to now, so a spawn comes more than the
\* interval in force (never below 1000 ms) after the spawn before it.
Thm_C11_SpawnTiming ==
    [][(ev'.op = "frame" /\ ev'.ran)
         => /\ ev'.spawned = (now - lastLanderSpawn > landerSpawnInterval)
            /\ Len(landers') <= Len(landers) + (IF ev'.spawned THEN 1 ELSE 0)
            /\ IF ev'.spawned
               THEN /\ lastLanderSpawn' = now
                    /\ landerSpawnInterval >= 1000
                    /\ now - lastLanderSpawn > landerSpawnInterval
               ELSE lastLanderSpawn' = lastLanderSpawn]_vars

\* C11 witness: a second lander was spawned by a running tick more than the
\* spawn interval after the first spawn.
Wit_C11_SecondSpawn ==
    /\ ev.op = "frame" /\ ev.ran /\ ev.spawned
    /\ lastLanderSpawn = now /\ now - Epoch > initialSpawnInterval
    /\ frames >= 2

\* C12: a fault in a step of a tick never leaves the render function (it is
\* caught), the frame in which it happens ends with isRunning false, and as
\* long as neither resume() nor start() has been called since, no frame
\* executes the body of the tick.
Thm_C12_FaultHalts ==
    [][(ev'.op = "frame")
         => /\ ~ev'.escaped
            /\ ev'.faulted => ~isRunning'
            /\ hist.halted => (~ev'.ran /\ ~isRunning)]_vars

\* C12 witness: a tick faulted, and the next frame, with no resume() or
\* start() in between, did not execute the tick.
Wit_C12_HaltedFrameSkipsTick ==
    /\ hist.halted /\ ~isRunning /\ frames = 2
    /\ ev.op = "frame" /\ ~ev.ran /\ ~ev.faulted

\* C13: a fire attempt passes the cooldown gate only when at least
\* shootCooldown ms have elapsed since the attempt that passed it before;
\* canShoot turns true again only after that time; and at most one cooldown
\* callback is pending at any time.
Thm_C13_CooldownSpacing ==
    [][/\ Cardinality(timers') <= 1
       /\ (ev'.op = "keySpace" /\ ev'.gate) => hist.sinceShot >= shootCooldown
       /\ (canShoot' /\ ~canShoot) => hist.sinceShot >= shootCooldown
       /\ (ev'.op = "keySpace" /\ ev'.gate) => (~canShoot' /\ timers' = {now + shootCooldown})]_vars

\* C13 witness: a third attempt passed the gate after two cooldowns had run
\* out.
Wit_C13_ThirdShotAfterCooldowns ==
    /\ ev.op = "keySpace" /\ ev.gate /\ ev.fired
    /\ Len(lasers) = 3 /\ hist.sinceShot = 0 /\ ~canShoot
    /\ now - Epoch >= 2 * shootCooldown

\* C14: no step raises health, whether a frame, start(), pause() or
\* resume(); health changes only in a frame in which landers collided with
\* the player, by 20 per collision, floored at 0.
Thm_C14_HealthOnlyDrops ==
    [][/\ health' <= health
       /\ health' # health
            => /\ ev'.op = "frame" /\ Len(ev'.bumps) > 0
               /\ health' = Max(0, health - landerDamage * Len(ev'.bumps))]_vars

\* C14 witness: a lander-player collision took 20 health, and a start()
\* call afterwards left it at 80.
Wit_C14_StartKeepsDamage ==
    /\ restarted /\ damageCalls = 1 /\ health = maxHealth - landerDamage
    /\ isRunning /\ ev.op = "other"

\* the steps of the tick proper in a frame's log: those entered from
\* update() or from the render function, without the observers' calls
RECURSIVE TickSteps(_)
TickSteps(log) ==
    IF log = <<>> THEN <<>>
    ELSE IF Head(log).by \in {"update", "loop"}
         THEN <<Head(log).step>> \o TickSteps(Tail(log))
         ELSE TickSteps(Tail(log))

IsPrefix(a, b) == Len(a) <= Len(b) /\ a = SubSeq(b, 1, Len(a))

ClaimedOrder ==
    <<"spawn", "updateLasers", "updateLanders", "updateAstronauts",
      "checkCollisions", "energy", "updateDifficulty">>

CodeOrder ==
    <<"spawn", "energy", "updateLasers", "updateLanders", "updateAstronauts",
      "checkCollisions", "updateDifficulty">>

\* C15 (as claimed): the steps a running tick executes come in the order
\* spawn check, movement (projectiles, landers, astronauts), collision
\* resolution, energy regeneration, difficulty.
CE_C15_ClaimedStepOrder ==
    (ev.op = "frame" /\ ev.ran) => IsPrefix(TickSteps(ev.steps), ClaimedOrder)

\* C15 (amended): the steps a running tick executes come in the order spawn
\* check, energy regeneration, projectile update, lander update, astronaut
\* update, collision resolution, difficulty; the spawn check and the energy
\* regeneration are always executed, and a tick that faults stops at the
\* faulting step.
Thm_C15_CodeStepOrder ==
    (ev.op = "frame" /\ ev.ran)
        => /\ IsPrefix(TickSteps(ev.steps), CodeOrder)
           /\ Len(TickSteps(ev.steps)) >= 2

\* C15 witness: a tick of update() that regenerated energy before it moved
\* the projectiles and reached the lander update.
Wit_C15_EnergyBeforeMovement ==
    /\ cls = 1 /\ ev.op = "frame" /\ ev.ran
    /\ TickSteps(ev.steps) = <<"spawn", "energy", "updateLasers", "updateLanders">>
    /\ energy > maxEnergy - laserEnergyCost /\ Len(lasers) = 1

\* the number of times a step was entered in a frame's log, by any caller
RECURSIVE StepCount(_, _)
StepCount(log, step) ==
    IF log = <<>> THEN 0
    ELSE (IF Head(log).step = step THEN 1 ELSE 0) + StepCount(Tail(log), step)

\* C16 (as claimed): a frame that executes the tick without a fault applies
\* the projectile update exactly once and the lander update exactly once.
CE_C16_MovementOncePerFrame ==
    (ev.op = "frame" /\ ev.ran /\ ~ev.faulted)
        => /\ StepCount(ev.steps, "updateLasers") = 1
           /\ StepCount(ev.steps, "updateLanders") = 1

Range(q) == { q[k] : k \in 1..Len(q) }

\* C17: a frame that resolves a projectile-lander hit removes the projectile
\* and the lander from the live collections, adds one to landersDestroyed
\* and adds 50 to the score.
Thm_C17_HitRemovesBothAndScores ==
    [][(ev'.op = "frame" /\ Len(ev'.hits) > 0)
        => /\ \A k \in 1..Len(ev'.hits) :
                /\ ev'.hits[k].laser \notin Range(lasers')
                /\ \A l \in Range(landers') : ~Intersects(ev'.hits[k].laser, l)
           /\ Len(lasers') <= Len(lasers) - Len(ev'.hits)
           /\ Len(landers') <= Len(landers) + (IF ev'.spawned THEN 1 ELSE 0) - Len(ev'.hits)
           /\ landersDestroyed' = landersDestroyed + Len(ev'.hits)
           /\ score' = score + 50 * Len(ev'.hits)
           /\ astronautsSaved' = astronautsSaved]_vars

\* C17 witness: the first hit of a game has been resolved, with one lander
\* destroyed and 50 points scored.
Wit_C17_FirstHitScored ==
    /\ ev.op = "frame" /\ Len(ev.hits) = 1
    /\ Intersects(ev.hits[1].laser, ev.hits[1].lander)
    /\ landersDestroyed = 1 /\ score = 50

\* C18: a frame resolves at most one projectile-lander hit, however many
\* projectiles overlap landers; the projectile update ends at the first hit.
Thm_C18_OneHitPerTick ==
    [][(ev'.op = "frame")
        => /\ Len(ev'.hits) <= 1
           /\ landersDestroyed' <= landersDestroyed + 1]_vars

\* C18 witness: a frame resolved one hit and left a second projectile whose
\* next position overlaps a live lander.
Wit_C18_SecondOverlapLeft ==
    /\ ev.op = "frame" /\ Len(ev.hits) = 1 /\ frames = 1
    /\ Len(lasers) = 1 /\ Len(landers) = 1
    /\ Intersects(MoveLaser(lasers[1]), landers[1])

\* C19: every change of the score is made of +50 steps that each come with
\* one more lander destroyed, +100 steps that each come with one more
\* astronaut saved, and -50 penalties for astronauts lost; nothing else
\* changes the score, and the two counters never decrease.
Thm_C19_ScoreChangesAccounted ==
    [][/\ landersDestroyed' >= landersDestroyed
       /\ astronautsSaved' >= astronautsSaved
       /\ score' - score = 50 * (landersDestroyed' - landersDestroyed)
                           + 100 * (astronautsSaved' - astronautsSaved)
                           - 50 * (IF ev'.op = "frame" THEN ev'.lost ELSE 0)
       /\ ev'.op = "frame" => landersDestroyed' - landersDestroyed = Len(ev'.hits)]_vars

\* C19 witness: a frame removed an astronaut that fell below the floor and
\* took the 50 point penalty.
Wit_C19_PenaltyTaken ==
    ev.op = "frame" /\ ev.lost = 1 /\ score = -50 /\ Len(astronauts) = 0

\* C20: a lander that is nearer than 3 units to the player when it is
\* updated is removed and costs 20 health, floored at 0, and adds nothing to
\* the score or to the counters; a lander at 3 units or more does no damage,
\* so the health lost in a frame is 20 for each such lander and no more.
\* No lander update is cut short by an astronaut collision in these runs, so
\* every live lander is updated and none is left nearer than 3 units.
Thm_C20_LanderPlayerCollision ==
    [][(ev'.op = "frame")
        => /\ \A k \in 1..Len(ev'.bumps) :
                /\ Dist2(ev'.bumps[k], camera) < playerHitRange * playerHitRange
                /\ ev'.bumps[k] \notin Range(landers')
           /\ Len(landers') <= Len(landers) + (IF ev'.spawned THEN 1 ELSE 0) - Len(ev'.bumps)
           /\ \A l \in Range(landers') :
                Dist2(l, camera) >= playerHitRange * playerHitRange
           /\ health' = Max(0, health - landerDamage * Len(ev'.bumps))
           /\ damageCalls' = damageCalls + Len(ev'.bumps)
           /\ score' = score + 50 * Len(ev'.hits) - 50 * ev'.lost
           /\ landersDestroyed' = landersDestroyed + Len(ev'.hits)
           /\ astronautsSaved' = astronautsSaved]_vars

\* C20 witness: a frame removed the lander next to the player for 20 health
\* and no points, and left alive, undamaged, a lander at exactly 3 units.
Wit_C20_BumpAndBoundary ==
    /\ ev.op = "frame" /\ Len(ev.bumps) = 1 /\ Len(ev.hits) = 0
    /\ health = maxHealth - landerDamage /\ score = 0 /\ landersDestroyed = 0
    /\ \E l \in Range(landers) : Dist2(l, camera) = playerHitRange * playerHitRange

\* C30 (as claimed): in the first version no frame takes isRunning from true
\* to false, for no tick faults; only pause() does.
CE_C30_OnlyPauseHalts ==
    [][(cls = 1 /\ isRunning /\ ~isRunning') => (ev'.op # "frame" /\ ~ev'.faulted)]_vars

\* C21: after every frame no live lander has z < -500 or y < -100 and no
\* live astronaut has y < -100; the astronauts that left the collection of
\* the first version in the frame are the ones that fell below the floor,
\* each for a penalty of 50, and nothing else of the cleanup changes the
\* score.
Thm_C21_OutOfBoundsCleanup ==
    [][(ev'.op = "frame")
        => /\ \A l \in Range(landers') : l.z >= landerMinZ /\ l.y >= landerMinY
           /\ \A a \in Range(astronauts') : a.y >= astronautMinY
           /\ cls = 1 => Len(astronauts') = Len(astronauts) - ev'.lost
           /\ cls = 2 => ev'.lost = 0
           /\ score' = score + 50 * Len(ev'.hits) - 50 * ev'.lost]_vars

\* C21 witness: a frame of the first version, with a lander alive, removed
\* the astronaut that fell below y = -100 and charged 50 points for it.
Wit_C21_FallenAstronautRemoved ==
    /\ cls = 1 /\ ev.op = "frame" /\ ev.lost = 1 /\ Len(ev.hits) = 0
    /\ astronauts = <<>> /\ score = -50
    /\ Len(landers) > 0 /\ \A l \in Range(landers) : l.y = 0 /\ l.z >= landerMinZ

\* C22 (as claimed): in a frame that executes the tick every projectile
\* that is still live afterwards has advanced by exactly direction *
\* laserSpeed, with its direction unchanged.
CE_C22_EveryProjectileAdvances ==
    [][(ev'.op = "frame" /\ ev'.ran)
        => \A m \in Range(lasers') : \E l \in Range(lasers) : m = MoveLaser(l)]_vars


\* C23 (as claimed): when running ticks keep coming (there are infinitely
\* many frames that execute the tick), a live projectile is eventually
\* removed from the projectile collection.
CE_C23_ProjectileEventuallyRemoved ==
    ([]<>(ev.op = "frame" /\ ev.ran)) => ((Len(lasers) > 0) ~> (Len(lasers) = 0))

\* the squared planar distance between the lander at (x, z) and astronaut a
PlaneGap2(x, z, a) == (a.x - x) * (a.x - x) + (a.z - z) * (a.z - z)

\* C24: the astronaut a lander update steers toward is a live astronaut
\* whose planar (x, z) distance from the lander, taken where the lander is
\* when the search runs, is minimal, and every astronaut before it in the
\* collection is strictly farther; with no astronaut there is no target.
Thm_C24_NearestFirstOnTies ==
    [][(ev'.op = "landerUpdate")
        => \A i \in 1..Len(landers) :
             (landers'[i] # landers[i] \/ Len(landers) = 1)
                => LET t == landers'[i].target
                       x == landers[i].x
                       z == landers'[i].z
                   IN IF Len(astronauts) = 0 THEN t = 0
                      ELSE /\ t \in 1..Len(astronauts)
                           /\ \A k \in 1..Len(astronauts) :
                                 PlaneGap2(x, z, astronauts[t]) <= PlaneGap2(x, z, astronauts[k])
                           /\ \A k \in 1..(t - 1) :
                                 PlaneGap2(x, z, astronauts[t]) < PlaneGap2(x, z, astronauts[k])]_vars

\* C24 witness: a lander at x = 5 was updated between two astronauts at
\* x = 0 and x = 10 on its own z line, both 5 away; it chose the first and
\* moved toward it.
Wit_C24_TieTakesFirst ==
    /\ ev.op = "landerUpdate" /\ frames = 1
    /\ Len(astronauts) = 2
    /\ astronauts[1].x = 0 /\ astronauts[2].x = 100
    /\ astronauts[1].z = landers[1].z /\ astronauts[2].z = landers[1].z
    /\ landers[1].target = 1 /\ landers[1].x = 50 - landerSpeed

\* C25: after an astronaut update on plane offset gz every astronaut has
\* z = initialZ + gz, also when the update wrapped it forward by 1000
\* because initialZ + gz was below -500; the wrap moves z and initialZ
\* together, and an astronaut at exactly -500 is not wrapped.
Thm_C25_AstronautZInvariant ==
    [][\A gz \in ScrollZs :
         AstronautStep(gz)
            => \A k \in 1..Len(astronauts) :
                 /\ astronauts'[k].z = astronauts'[k].initialZ + gz
                 /\ astronauts'[k].initialZ =
                        astronauts[k].initialZ
                        + (IF astronauts[k].initialZ + gz < landerMinZ THEN astronautWrap ELSE 0)
                 /\ astronauts'[k].x = astronauts[k].x]_vars

\* C25 witness: the first update put an astronaut's z below -500 and
\* wrapped it, leaving z = initialZ + gz with initialZ raised by 1000.
Wit_C25_WrappedForward ==
    /\ ev.op = "astronautUpdate" /\ frames = 1 /\ Len(astronauts) > 0
    /\ astronauts[1].initialZ = astronautWrap
    /\ astronauts[1].z = astronautWrap - 5001

\* C26: in a frame that executes the tick with the spawn timer expired a
\* lander is spawned however many landers are live, also when there are
\* maxEnemies of them or more; the timer is the only gate, and maxEnemies
\* does not bound the number of live landers.
Thm_C26_SpawnIgnoresMaxEnemies ==
    [][(ev'.op = "frame" /\ ev'.ran /\ now - lastLanderSpawn > landerSpawnInterval)
        => /\ ev'.spawned
           /\ lastLanderSpawn' = now
           /\ Len(landers') = Len(landers) + 1 - Len(ev'.hits) - Len(ev'.bumps)
                                - (Len(astronauts) - Len(astronauts') - ev'.lost)]_vars

\* C26 witness: a lander was spawned with maxEnemies landers already live,
\* and the live landers now outnumber maxEnemies.
Wit_C26_MoreThanMaxEnemies ==
    /\ cls = 1 /\ ev.op = "frame" /\ ev.spawned
    /\ Len(landers) = maxEnemies + 1

\* C27 (as claimed): every lander-update pass of a frame executes its loop
\* body for each lander that was live when the pass began.
CE_C27_EveryLanderProcessed ==
    (ev.op = "frame")
        => \A k \in 1..Len(ev.passes) : ev.passes[k].updated = ev.passes[k].live

\* C28: every lander searches the game's own astronaut array, whenever it
\* was spawned; so after a frame whose last lander-update pass removed no
\* astronaut, the target each live lander's search chose is an astronaut of
\* the game's collection, and there is none only when the collection is
\* empty.
Thm_C28_LandersSearchLiveCollection ==
    [][/\ \A l \in Range(landers') : l.astronauts = AstronautsArray
       /\ (/\ ev'.op = "frame" /\ Len(ev'.passes) > 0
           /\ ev'.passes[Len(ev'.passes)].eaten = 0
           /\ ev'.passes[Len(ev'.passes)].updated = ev'.passes[Len(ev'.passes)].live)
            => \A l \in Range(landers') :
                 IF Len(astronauts') = 0 THEN l.target = 0
                 ELSE l.target \in 1..Len(astronauts')]_vars

\* C28 witness: in one frame a lander was spawned, another lander removed
\* an astronaut in the first pass, and in the second pass the new lander
\* searched the one astronaut left and steered toward it.
Wit_C28_NewLanderSeesRemoval ==
    /\ ev.op = "frame" /\ ev.spawned /\ Len(ev.passes) = 2
    /\ ev.passes[1].eaten = 1 /\ ev.passes[2].eaten = 0
    /\ Len(astronauts) = 1
    /\ \E l \in Range(landers) :
         /\ l.initialZ = 500 /\ l.astronauts = AstronautsArray
         /\ l.target = 1 /\ l.x < spawnX

\* C29 (as claimed): after every running tick of the first version the
\* difficulty is min(10, 1 + floor(T / 30)), T being the seconds spent with
\* isRunning true since start().
CE_C29_DifficultyFollowsRunningTime ==
    [][(cls = 1 /\ ev'.op = "frame" /\ ev'.ran)
        => difficulty' = Min(maxDifficulty, 1 + hist.running \div difficultyPeriod)]_vars
====
